---- MODULE Spec2Model ----
(***************************************************************************)
(* kmt2es: import of Komoot tours into Elasticsearch                       *)
(* (src/src/kmt2es/kmt2es/main.py).                                        *)
(*                                                                         *)
(* Three specifications over one set of variables:                         *)
(*   SpecTransform  _transform_coordinates as a pure function of its       *)
(*                  arguments,                                             *)
(*   SpecTours      _request_tours against a paging source API,            *)
(*   Spec           _send_to_elasticsearch over a list of tours, against   *)
(*                  the coordinate API and the datastore.                  *)
(*                                                                         *)
(* Units.  Python floats are modelled by integers:                         *)
(*   lat, lng   whole degrees,                                             *)
(*   distance   millimetres, truncated (mpu.haversine_distance returns km  *)
(*              as a float),                                               *)
(*   speed      metres per second, truncated (Python: km per second as a   *)
(*              float); millimetres over milliseconds, so that truncating  *)
(*              the distance first does not change the truncated speed,    *)
(*   0.0        0.                                                         *)
(* A datetime is [year, month, day, second, microsecond], second being     *)
(* the second of the day; a timedelta is [days, seconds, microseconds],    *)
(* normalised as Python normalises it.  A tour's 'date' is held as the     *)
(* datetime its ISO-8601 text denotes (UTC).                               *)
(***************************************************************************)
EXTENDS Integers, Sequences, FiniteSets, TLC

VARIABLES
    cli_args,     \* the parsed command line: full_index and the two index templates
    api,          \* the source API's state, constant during a run
    pc,           \* position of the running function
    tours,        \* _request_tours: the list being built; _send_to_elasticsearch: its argument
    page_index,   \* _request_tours: local page_index
    page,         \* _request_tours: local page (the last response)
    i,            \* _send_to_elasticsearch: loop index (1-based here, 0-based in Python)
    coordinates,  \* _send_to_elasticsearch: local coordinates (response, then rows; unbound at first)
    es,           \* the datastore: [indices, docs]
    ops,          \* every outbound call made so far, in order
    exc,          \* the exception that ended the run, NoExc while none
    es_before,    \* history: es as it was when the current loop iteration began
    args,         \* SpecTransform: the arguments of _transform_coordinates
    result        \* SpecTransform: what _transform_coordinates returned or raised

vars == <<cli_args, api, pc, tours, page_index, page, i, coordinates, es, ops,
          exc, es_before, args, result>>

----------------------------------------------------------------------------
(* Bounds *)

\* longest coordinate stream handed to _transform_coordinates in SpecTransform
MaxSamples == 3
\* largest totalPages the source API reports in SpecTours
MaxPages == 3
\* longest tour list handed to _send_to_elasticsearch in Spec
MaxTours == 3

----------------------------------------------------------------------------
(* str.format *)

Digits == <<"0", "1", "2", "3", "4", "5", "6", "7", "8", "9">>

\* '{}'.format(n) for an integer n >= 0
RECURSIVE str(_)
str(n) == IF n < 10 THEN Digits[n + 1] ELSE str(n \div 10) \o Digits[(n % 10) + 1]

\* '{:02d}'.format(n): zero-padded to a width of at least two
str02d(n) == IF n < 10 THEN "0" \o str(n) ELSE str(n)

----------------------------------------------------------------------------
(* Exceptions *)

NoExc == [type |-> "", arg |-> ""]
KeyError(k) == [type |-> "KeyError", arg |-> k]
\* "Request failed with status code {}.".format(r.status_code)
RuntimeError(status) == [type |-> "RuntimeError", arg |-> str(status)]
ZeroDivisionError == [type |-> "ZeroDivisionError", arg |-> "float division by zero"]

----------------------------------------------------------------------------
(* Templates *)

\* A template is a sequence of pieces: literal text or a replacement field
Lit(s) == [lit |-> s, field |-> "", spec |-> ""]
Field(name, spec) == [lit |-> "", field |-> name, spec |-> spec]

\* template.format(**kwargs): [exc, value]; a field that kwargs lacks raises KeyError,
\* a keyword the template does not use is ignored
RECURSIVE format(_, _)
format(template, kwargs) ==
    IF template = <<>> THEN [exc |-> NoExc, value |-> ""]
    ELSE LET piece == Head(template)
             rest == format(Tail(template), kwargs)
         IN IF piece.field = "" THEN
                IF rest.exc # NoExc THEN rest
                ELSE [exc |-> NoExc, value |-> piece.lit \o rest.value]
            ELSE IF piece.field \notin DOMAIN kwargs THEN
                [exc |-> KeyError(piece.field), value |-> ""]
            ELSE IF rest.exc # NoExc THEN rest
            ELSE [exc |-> NoExc,
                  value |-> (IF piece.spec = "02d" THEN str02d(kwargs[piece.field])
                             ELSE str(kwargs[piece.field])) \o rest.value]

\* the defaults of main.py and the rollover variants its help text describes
es_index_tour_default ==
    <<Lit("komoot-tour-"), Field("year", "02d"), Lit("-"), Field("month", "02d")>>
es_index_coordinates_default ==
    <<Lit("komoot-coordinates-"), Field("year", "02d"), Lit("-"), Field("month", "02d")>>
es_index_tour_daily ==
    <<Lit("komoot-tour-"), Field("year", ""), Lit("-"), Field("month", ""),
      Lit("-"), Field("day", "")>>
es_index_coordinates_daily ==
    <<Lit("komoot-coordinates-"), Field("year", "02d"), Lit("-"), Field("month", "02d"),
      Lit("-"), Field("day", "02d")>>
es_index_coordinates_fixed == <<Lit("komoot-coordinates")>>

TourTemplates == {es_index_tour_default, es_index_tour_daily}
CoordinateTemplates ==
    {es_index_coordinates_default, es_index_coordinates_daily, es_index_coordinates_fixed}

CliArgs == [full_index : BOOLEAN,
            es_index_format_tour : TourTemplates,
            es_index_format_coordinates : CoordinateTemplates]

----------------------------------------------------------------------------
(* datetime and timedelta *)

IsLeap(y) == (y % 4 = 0) /\ ((y % 100 # 0) \/ (y % 400 = 0))

DaysInMonth(y, m) ==
    IF m = 2 THEN (IF IsLeap(y) THEN 29 ELSE 28)
    ELSE IF m \in {4, 6, 9, 11} THEN 30 ELSE 31

DaysBeforeYear(y) ==
    LET p == y - 1 IN p * 365 + (p \div 4) - (p \div 100) + (p \div 400)

RECURSIVE DaysBeforeMonth(_, _)
DaysBeforeMonth(y, m) ==
    IF m = 1 THEN 0 ELSE DaysBeforeMonth(y, m - 1) + DaysInMonth(y, m - 1)

\* date.toordinal()
ymd2ord(y, m, d) == DaysBeforeYear(y) + DaysBeforeMonth(y, m) + d

\* date.fromordinal(n), for the years the model's dates lie in
ord2ymd(n) ==
    LET y == CHOOSE yy \in 2000..2100 :
                 DaysBeforeYear(yy) < n /\ n <= DaysBeforeYear(yy + 1)
        r == n - DaysBeforeYear(y)
        m == CHOOSE mm \in 1..12 :
                 DaysBeforeMonth(y, mm) < r /\ r <= DaysBeforeMonth(y, mm) + DaysInMonth(y, mm)
    IN [year |-> y, month |-> m, day |-> r - DaysBeforeMonth(y, m)]

\* timedelta(microseconds=us), us an integer >= 0
timedelta(us) ==
    LET s == us \div 1000000
    IN [days |-> s \div 86400, seconds |-> s % 86400, microseconds |-> us % 1000000]

\* td * n
timedelta_mul(td, n) ==
    LET us == td.microseconds * n
        s == td.seconds * n + (us \div 1000000)
    IN [days |-> td.days * n + (s \div 86400),
        seconds |-> s % 86400,
        microseconds |-> us % 1000000]

\* dt + td
datetime_add(dt, td) ==
    LET us == dt.microsecond + td.microseconds
        s == dt.second + td.seconds + (us \div 1000000)
        d == ord2ymd(ymd2ord(dt.year, dt.month, dt.day) + td.days + (s \div 86400))
    IN [year |-> d.year, month |-> d.month, day |-> d.day,
        second |-> s % 86400, microsecond |-> us % 1000000]

----------------------------------------------------------------------------
(* Tours and coordinate samples *)

Dates ==
    { [year |-> 2023, month |-> 7, day |-> 15, second |-> 36000, microsecond |-> 0],
      [year |-> 2023, month |-> 12, day |-> 31, second |-> 86398, microsecond |-> 500000],
      [year |-> 2024, month |-> 2, day |-> 29, second |-> 86397, microsecond |-> 0] }

Tour(id, type, date, sport) == [id |-> id, type |-> type, date |-> date, sport |-> sport]

TourCatalog ==
    { Tour(1, "tour_recorded",
           [year |-> 2023, month |-> 7, day |-> 15, second |-> 36000, microsecond |-> 0],
           "hike"),
      Tour(12, "tour_recorded",
           [year |-> 2023, month |-> 12, day |-> 31, second |-> 86398, microsecond |-> 500000],
           "touringbicycle"),
      Tour(3, "tour_planned",
           [year |-> 2024, month |-> 2, day |-> 29, second |-> 86397, microsecond |-> 0],
           "hike") }

TourIds == {t.id : t \in TourCatalog}

Sample(t, lat, lng, alt) == [t |-> t, lat |-> lat, lng |-> lng, alt |-> alt]

\* a sample with one of its keys missing
Without(row, k) == [f \in DOMAIN row \ {k} |-> row[f]]

SampleKeys == {"t", "lat", "lng", "alt"}
IsMalformed(row) == ~(SampleKeys \subseteq DOMAIN row)

WellFormedSamples ==
    { Sample(t, p[1], p[2], p[3]) : t \in {0, 2000, 5000},
                                    p \in {<<48, 11, 519>>, <<48, 12, 530>>, <<49, 11, 498>>} }
MalformedSamples ==
    { Without(Sample(2000, 48, 12, 530), "t"), Without(Sample(5000, 48, 11, 519), "alt") }
Samples == WellFormedSamples \cup MalformedSamples

RECURSIVE SeqsUpTo(_, _)
SeqsUpTo(S, n) ==
    IF n = 0 THEN {<<>>}
    ELSE LET shorter == SeqsUpTo(S, n - 1)
         IN shorter \cup {Append(q, x) : q \in {r \in shorter : Len(r) = n - 1}, x \in S}

----------------------------------------------------------------------------
(* _transform_coordinates *)

\* mpu.haversine_distance(origin, destination) in millimetres, truncated (74.40340714530116
\* km is 74403407), origin and destination
\* being (lat, lng) in whole degrees: 6371 km * 2 * atan2(sqrt(a), sqrt(1 - a)),
\* a = sin^2(dlat/2) + cos(lat1) * cos(lat2) * sin^2(dlng/2), tabulated for the
\* places the model's samples lie at
haversine_distance(origin, destination) ==
    LET pair == {origin, destination}
    IN CASE origin = destination -> 0
         [] pair = {<<48, 11>>, <<48, 12>>} -> 74403407
         [] pair = {<<48, 11>>, <<49, 11>>} -> 111194926
         [] pair = {<<48, 12>>, <<49, 11>>} -> 133387814

\* a / b: [exc, value], the value truncated toward zero
truediv(a, b) ==
    IF b = 0 THEN [exc |-> ZeroDivisionError, value |-> 0]
    ELSE IF b < 0 THEN [exc |-> NoExc, value |-> 0 - (a \div (0 - b))]
    ELSE [exc |-> NoExc, value |-> a \div b]

\* line 58: timedelta(microseconds=row['t']) * 1000
\* variant of delta: the factor 1000 left out
delta_NoScale(row) == timedelta(row.t)
delta(row) == timedelta_mul(timedelta(row.t), 1000)

\* line 60
distance(prev_row, row) ==
    IF prev_row = <<>> THEN 0
    ELSE haversine_distance(<<prev_row[1].lat, prev_row[1].lng>>, <<row.lat, row.lng>>)

\* line 61, in milliseconds: (row['t'] - prev_row['t']) / 1000 is 0.0 exactly when the
\* difference is 0
time_delta_in_ms(prev_row, row) == IF prev_row = <<>> THEN 0 ELSE row.t - prev_row[1].t

\* line 62: [exc, value]; dist in millimetres over time_delta in milliseconds is
\* distance / time_delta_in_s in metres per second
\* variant of speed: no test for zero elapsed time
speed_NoZeroGuard(prev_row, dist, time_delta) ==
    IF prev_row = <<>> THEN [exc |-> NoExc, value |-> 0]
    ELSE truediv(dist, time_delta)
speed(prev_row, dist, time_delta) ==
    IF prev_row = <<>> \/ time_delta = 0 THEN [exc |-> NoExc, value |-> 0]
    ELSE truediv(dist, time_delta)

\* line 64: the coordinate index a row is routed to
row_index(template, dt_start) ==
    format(template, [year |-> dt_start.year, month |-> dt_start.month])

\* line 66: '{}_{}'.format(tour_id, i), i counted from 0
\* variant of row_id: the position left out of the key
row_id_NoPosition(tour_id, n) == str(tour_id) \o "_" \o str(0)
row_id(tour_id, n) == str(tour_id) \o "_" \o str(n)

\* lines 57-77, one pass of the loop for items[n + 1], n the Python index:
\* [exc, row]
transform_row(row, n, prev_row, dt_start, tour_id, tour_sport, template) ==
    LET missing == {k \in SampleKeys : k \notin DOMAIN row}
        fail(e) == [exc |-> e, row |-> <<>>]
    IN IF "t" \in missing THEN fail(KeyError("t"))
       ELSE IF "lng" \in missing THEN fail(KeyError("lng"))
       ELSE IF "lat" \in missing THEN fail(KeyError("lat"))
       ELSE LET dist == distance(prev_row, row)
                td == time_delta_in_ms(prev_row, row)
                sp == speed(prev_row, dist, td)
                idx == row_index(template, dt_start)
            IN IF sp.exc # NoExc THEN fail(sp.exc)
               ELSE IF idx.exc # NoExc THEN fail(idx.exc)
               ELSE IF "alt" \in missing THEN fail(KeyError("alt"))
               ELSE [exc |-> NoExc,
                     row |-> [_index |-> idx.value,
                              _type |-> "coordinate",
                              _id |-> row_id(tour_id, n),
                              tour_id |-> tour_id,
                              date |-> datetime_add(dt_start, delta(row)),
                              lat |-> row.lat,
                              lng |-> row.lng,
                              geopoint |-> <<row.lng, row.lat>>,
                              distance |-> dist,
                              speed |-> sp.value,
                              alt |-> row.alt,
                              sport |-> tour_sport]]

\* lines 55-78: the loop over coordinates['items'] from Python index n on, rows being
\* the list built so far; [exc, rows]. An exception leaves the function and the
\* rows built so far with it
\* variant of transform_loop: an exception ends the loop and the rows built so far
\* are returned
RECURSIVE transform_loop_Partial(_, _, _, _, _, _, _, _)
transform_loop_Partial(items, n, prev_row, rows, dt_start, tour_id, tour_sport, template) ==
    IF n >= Len(items) THEN [exc |-> NoExc, rows |-> rows]
    ELSE LET r == transform_row(items[n + 1], n, prev_row, dt_start, tour_id,
                                tour_sport, template)
         IN IF r.exc # NoExc THEN [exc |-> NoExc, rows |-> rows]
            ELSE transform_loop_Partial(items, n + 1, <<items[n + 1]>>,
                                        Append(rows, r.row), dt_start, tour_id,
                                        tour_sport, template)
RECURSIVE transform_loop(_, _, _, _, _, _, _, _)
transform_loop(items, n, prev_row, rows, dt_start, tour_id, tour_sport, template) ==
    IF n >= Len(items) THEN [exc |-> NoExc, rows |-> rows]
    ELSE LET r == transform_row(items[n + 1], n, prev_row, dt_start, tour_id,
                                tour_sport, template)
         IN IF r.exc # NoExc THEN [exc |-> r.exc, rows |-> <<>>]
            ELSE transform_loop(items, n + 1, <<items[n + 1]>>, Append(rows, r.row),
                                dt_start, tour_id, tour_sport, template)

_transform_coordinates(coords, start_date, tour_id, tour_sport, cli) ==
    transform_loop(coords.items, 0, <<>>, <<>>, start_date, tour_id, tour_sport,
                   cli.es_index_format_coordinates)

----------------------------------------------------------------------------
(* Values the variables hold while the function they belong to is not running *)

NoApi == [totalPages |-> 0, pages |-> <<>>, failing |-> {}, coordinates |-> <<>>]
NoPage == [tours |-> <<>>, number |-> 0, totalPages |-> 0]
NoCoordinates == [items |-> <<>>, rows |-> <<>>]
EmptyEs == [indices |-> {}, docs |-> <<>>]
NoArgs == [coordinates |-> [items |-> <<>>], start_date |-> CHOOSE d \in Dates : TRUE,
           tour_id |-> 0, tour_sport |-> ""]
NoResult == [exc |-> NoExc, rows |-> <<>>]

----------------------------------------------------------------------------
(* SpecTransform: _transform_coordinates applied to bounded arguments *)

TransformArgs ==
    [coordinates : [items : SeqsUpTo(Samples, MaxSamples)],
     start_date : Dates,
     tour_id : {1, 12},
     tour_sport : {"hike"}]

InitTransform ==
    /\ cli_args \in {c \in CliArgs :
                        ~c.full_index /\ c.es_index_format_tour = es_index_tour_default}
    /\ args \in TransformArgs
    /\ pc = "call _transform_coordinates"
    /\ result = NoResult
    /\ api = NoApi
    /\ tours = <<>>
    /\ page_index = 0
    /\ page = NoPage
    /\ i = 1
    /\ coordinates = NoCoordinates
    /\ es = EmptyEs
    /\ ops = <<>>
    /\ exc = NoExc
    /\ es_before = EmptyEs

\* the call returns its rows, or raises
Transform ==
    /\ pc = "call _transform_coordinates"
    /\ result' = _transform_coordinates(args.coordinates, args.start_date, args.tour_id,
                                        args.tour_sport, cli_args)
    /\ pc' = IF result'.exc = NoExc THEN "returned" ELSE "raised"
    /\ UNCHANGED <<cli_args, api, tours, page_index, page, i, coordinates, es, ops,
                   exc, es_before, args>>

NextTransform == Transform

SpecTransform == InitTransform /\ [][NextTransform]_vars

Items == args.coordinates.items
Returned == pc = "returned"

\* C4: the first point has distance 0.0 and speed 0.0; a point whose sample has the
\* same t as the sample before it has speed 0.0 whatever its distance; and no
\* stream makes the function divide by zero.
C4_FirstPointAndZeroElapsed ==
    /\ pc \in {"returned", "raised"} => result.exc.type # "ZeroDivisionError"
    /\ Returned =>
        /\ Len(result.rows) = Len(Items)
        /\ Len(Items) >= 1 => result.rows[1].distance = 0 /\ result.rows[1].speed = 0
        /\ \A k \in 2..Len(Items) :
              Items[k].t = Items[k - 1].t => result.rows[k].speed = 0

\* a returned stream with two samples at the same t and different places
C4_Witness ==
    /\ Returned
    /\ \E k \in 2..Len(Items) :
          /\ Items[k].t = Items[k - 1].t
          /\ result.rows[k].distance > 0
          /\ result.rows[k].speed = 0
    /\ \E k \in 2..Len(Items) : result.rows[k].speed # 0

\* microseconds from datetime a to datetime b, for b less than 2000 s after a;
\* -1 otherwise
MicrosecondsBetween(a, b) ==
    LET s == (ymd2ord(b.year, b.month, b.day) - ymd2ord(a.year, a.month, a.day)) * 86400
             + b.second - a.second
    IN IF s \in 0..2000 THEN s * 1000000 + b.microsecond - a.microsecond ELSE 0 - 1

datetime_le(a, b) ==
    LET ka == <<a.year, a.month, a.day, a.second, a.microsecond>>
        kb == <<b.year, b.month, b.day, b.second, b.microsecond>>
    IN \/ ka = kb
       \/ \E n \in 1..5 : ka[n] < kb[n] /\ \A m \in 1..(n - 1) : ka[m] = kb[m]

\* C5: the timestamp of point i is the tour start plus items[i].t * 1000
\* microseconds, computed from that sample alone; so points are in time order
\* wherever the t values are, and a sample with t = 0 carries the tour start.
C5_TimestampFromOwnOffset ==
    Returned =>
        /\ Len(result.rows) = Len(Items)
        /\ \A k \in 1..Len(Items) :
              /\ MicrosecondsBetween(args.start_date, result.rows[k].date)
                    = Items[k].t * 1000
              /\ Items[k].t = 0 => result.rows[k].date = args.start_date
        /\ \A j, k \in 1..Len(Items) :
              j < k /\ Items[j].t <= Items[k].t
                 => datetime_le(result.rows[j].date, result.rows[k].date)

\* a returned stream whose t values do not decrease, one of whose points falls on
\* the day after the tour start, after one that does not
C5_Witness ==
    /\ Returned
    /\ Len(Items) >= 2
    /\ \A k \in 2..Len(Items) : Items[k - 1].t <= Items[k].t
    /\ result.rows[1].date = args.start_date
    /\ result.rows[Len(Items)].date.day # args.start_date.day
    /\ result.rows[Len(Items)].date.year # args.start_date.year

\* C6: one point per sample, in input order; point i carries the key
\* '<tour_id>_<i>' and the lat/lng of sample i, so the keys of one tour are
\* pairwise distinct.
C6_OnePointPerSample ==
    /\ Returned =>
        /\ Len(result.rows) = Len(Items)
        /\ \A k \in 1..Len(Items) :
              /\ result.rows[k]._id = str(args.tour_id) \o "_" \o str(k - 1)
              /\ result.rows[k].tour_id = args.tour_id
              /\ result.rows[k].lat = Items[k].lat
              /\ result.rows[k].lng = Items[k].lng
        /\ \A j, k \in 1..Len(Items) : j # k => result.rows[j]._id # result.rows[k]._id
    /\ pc = "raised" =>
        \/ \E k \in 1..Len(Items) : IsMalformed(Items[k])
        \/ result.exc = KeyError("day")

\* a returned stream of the longest length, visiting two places
C6_Witness ==
    /\ Returned
    /\ Len(result.rows) = MaxSamples
    /\ args.tour_id = 12
    /\ result.rows[MaxSamples]._id = "12_" \o str(MaxSamples - 1)
    /\ \E j, k \in 1..Len(Items) : result.rows[j].lat = result.rows[k].lat
                                     /\ result.rows[j].lng # result.rows[k].lng

----------------------------------------------------------------------------
(* The source API *)

\* an outbound call: what was called, for which page index or tour position, with what
Op(op, at, arg) == [op |-> op, at |-> at, arg |-> arg]

\* The page size asked for is recorded in the call; which tours a page holds is the
\* API's affair and does not depend on it here.
\* requests.get of lines 34-36: the API answers a page request with the page it
\* holds at that index, reports the requested index as the page number, and fails
\* for the indices in api.failing
tour_page_response(page_no) ==
    IF page_no \in api.failing THEN [status_code |-> 500, body |-> NoPage]
    ELSE [status_code |-> 200,
          body |-> [tours |-> IF page_no < Len(api.pages) THEN api.pages[page_no + 1]
                              ELSE <<>>,
                    number |-> page_no,
                    totalPages |-> api.totalPages]]

\* requests.get of line 42
coordinates_response(tour_id) == api.coordinates[tour_id]

\* lines 37-38 and 43-44
request_failed(r) == r.status_code >= 400

----------------------------------------------------------------------------
(* SpecTours: _request_tours *)

\* line 19
entries_per_page(full_index) == IF full_index THEN 100 ELSE 10

\* line 26
\* variant of more_pages: one page too many
more_pages_OffByOne(p) == p.number < p.totalPages
more_pages(p) == p.number < (p.totalPages - 1)

PageCatalog ==
    { <<>>,
      <<CHOOSE t \in TourCatalog : t.id = 1>>,
      <<CHOOSE t \in TourCatalog : t.id = 12, CHOOSE t \in TourCatalog : t.id = 3>> }

InitTours ==
    /\ cli_args \in {c \in CliArgs :
                        /\ c.es_index_format_tour = es_index_tour_default
                        /\ c.es_index_format_coordinates = es_index_coordinates_default}
    /\ \E n \in 0..MaxPages :
          api \in [totalPages : {n},
                   pages : [1..n -> PageCatalog],
                   failing : {{}} \cup {{f} : f \in 0..(n - 1)},
                   coordinates : {<<>>}]
    /\ pc = "call _request_tours"
    /\ tours = <<>>
    /\ page_index = 0
    /\ page = NoPage
    /\ i = 1
    /\ coordinates = NoCoordinates
    /\ es = EmptyEs
    /\ ops = <<>>
    /\ exc = NoExc
    /\ es_before = EmptyEs
    /\ args = NoArgs
    /\ result = NoResult

\* lines 19-25: the first page is requested whatever the flag is
RequestFirstPage ==
    /\ pc = "call _request_tours"
    /\ LET r == tour_page_response(0)
       IN /\ ops' = Append(ops, Op("GET tours", 0, entries_per_page(cli_args.full_index)))
          /\ page_index' = 0
          /\ IF request_failed(r)
             THEN /\ exc' = RuntimeError(r.status_code)
                  /\ pc' = "raised"
                  /\ UNCHANGED <<page, tours>>
             ELSE /\ page' = r.body
                  /\ tours' = tours \o r.body.tours
                  /\ pc' = IF cli_args.full_index THEN "while" ELSE "return"
                  /\ UNCHANGED exc
    /\ UNCHANGED <<cli_args, api, i, coordinates, es, es_before, args, result>>

\* lines 26-29
RequestNextPage ==
    /\ pc = "while"
    /\ more_pages(page)
    /\ LET r == tour_page_response(page_index + 1)
       IN /\ ops' = Append(ops, Op("GET tours", page_index + 1,
                                   entries_per_page(cli_args.full_index)))
          /\ page_index' = page_index + 1
          /\ IF request_failed(r)
             THEN /\ exc' = RuntimeError(r.status_code)
                  /\ pc' = "raised"
                  /\ UNCHANGED <<page, tours>>
             ELSE /\ page' = r.body
                  /\ tours' = tours \o r.body.tours
                  /\ UNCHANGED <<pc, exc>>
    /\ UNCHANGED <<cli_args, api, i, coordinates, es, es_before, args, result>>

\* line 30
ReturnTours ==
    /\ \/ pc = "return"
       \/ pc = "while" /\ ~more_pages(page)
    /\ pc' = "returned"
    /\ UNCHANGED <<cli_args, api, tours, page_index, page, i, coordinates, es, ops,
                   exc, es_before, args, result>>

NextTours ==
    \/ RequestFirstPage
    \/ RequestNextPage
    \/ ReturnTours

SpecTours == InitTours /\ [][NextTours]_vars

RECURSIVE PagesConcatenated(_)
PagesConcatenated(n) ==
    IF n = 0 THEN <<>> ELSE PagesConcatenated(n - 1) \o api.pages[n]

\* the page requests for indices 0..n-1, in order
PageRequests(n, limit) == [k \in 1..n |-> Op("GET tours", k - 1, limit)]

\* C7 as stated: with full_index the pages 0..totalPages-1 are requested once each
\* with page size 100 and their tours returned in page order; without it one
\* request is made, for page 0 with page size 10, and its tours returned.
C7_AsStated ==
    pc = "returned" =>
        IF cli_args.full_index
        THEN /\ ops = PageRequests(api.totalPages, 100)
             /\ tours = PagesConcatenated(api.totalPages)
        ELSE /\ ops = PageRequests(1, 10)
             /\ tours = tour_page_response(0).body.tours

\* C7, amended: page 0 is requested whatever totalPages is, so with full_index the
\* pages requested are 0..max(totalPages, 1)-1, once each and in order, with page
\* size 100; the function ends after at most that many requests and returns the
\* tours of those pages in page order. Without full_index: one request, page 0,
\* page size 10.
C7_PagesRequestedOnce ==
    LET n == IF api.totalPages = 0 THEN 1 ELSE api.totalPages
    IN /\ Len(ops) <= n
       /\ pc \in {"returned", "raised"} \/ ENABLED NextTours
       /\ pc = "raised" => api.failing # {}
       /\ pc = "returned" =>
             IF cli_args.full_index
             THEN /\ ops = PageRequests(n, 100)
                  /\ tours = PagesConcatenated(api.totalPages)
             ELSE /\ ops = PageRequests(1, 10)
                  /\ tours = tour_page_response(0).body.tours

\* a full listing of three or more pages has returned tours from several of them
C7_Witness ==
    /\ pc = "returned"
    /\ cli_args.full_index
    /\ api.totalPages >= 3
    /\ Len(ops) = api.totalPages
    /\ Len(tours) >= 4

----------------------------------------------------------------------------
(* The datastore *)

\* a document store as a function from <<index, id>> to the document's source
Put(docs, key, body) ==
    [k \in (DOMAIN docs) \cup {key} |-> IF k = key THEN body ELSE docs[k]]

\* es.indices.create(index=name, ignore=400): an index that exists stays as it is
indices_create(store, name) == [store EXCEPT !.indices = @ \cup {name}]

\* es.index(index=index, id=id, body=body): the document replaces the one under
\* the same id; the datastore creates an index that is written to
es_index(store, index, id, body) ==
    [indices |-> store.indices \cup {index},
     docs |-> Put(store.docs, <<index, str(id)>>, body)]

\* what the datastore keeps of a bulk action: the row without its routing fields
source_of(action) == [f \in (DOMAIN action) \ {"_index", "_type", "_id"} |-> action[f]]

\* elasticsearch.helpers.bulk(es, actions): each action is an index operation on
\* <<_index, _id>>, applied in order
\* variant of bulk: the actions carry no _id and the datastore assigns one
RECURSIVE bulk_AutoId(_, _)
bulk_AutoId(store, actions) ==
    IF actions = <<>> THEN store
    ELSE LET a == Head(actions)
             id == "auto" \o str(Cardinality(DOMAIN store.docs))
         IN bulk_AutoId([indices |-> store.indices \cup {a._index},
                         docs |-> Put(store.docs, <<a._index, id>>, source_of(a))],
                        Tail(actions))
RECURSIVE bulk(_, _)
bulk(store, actions) ==
    IF actions = <<>> THEN store
    ELSE LET a == Head(actions)
         IN bulk([indices |-> store.indices \cup {a._index},
                  docs |-> Put(store.docs, <<a._index, a._id>>, source_of(a))],
                 Tail(actions))

----------------------------------------------------------------------------
(* Spec: _send_to_elasticsearch *)

\* line 83
\* variant of is_recorded: the type is not looked at
is_recorded_Any(row) == TRUE
is_recorded(row) == row.type = "tour_recorded"

\* lines 91 and 98
tour_index(cli, dt) ==
    format(cli.es_index_format_tour, [year |-> dt.year, month |-> dt.month, day |-> dt.day])

\* line 111
coordinates_index(cli, dt) ==
    format(cli.es_index_format_coordinates,
           [year |-> dt.year, month |-> dt.month, day |-> dt.day])

\* lines 89-95: what is done for a recorded tour, in order
\* variant of TourSteps: the metadata written after the bulk call
TourSteps_MetadataLast ==
    <<"_create_elasticsearch_index", "_request_coordinates", "_transform_coordinates",
      "bulk", "es.index", "log.info">>
TourSteps ==
    <<"_create_elasticsearch_index", "es.index", "_request_coordinates",
      "_transform_coordinates", "bulk", "log.info">>

\* the statement that follows `step`; after the last one the loop goes on
after(step) ==
    LET n == CHOOSE k \in 1..Len(TourSteps) : TourSteps[k] = step
    IN IF n = Len(TourSteps) THEN "for" ELSE TourSteps[n + 1]

ApiStreams ==
    { <<>>,
      <<Sample(0, 48, 11, 519)>>,
      <<Sample(0, 48, 11, 519), Sample(2000, 48, 12, 530)>>,
      <<Sample(0, 48, 11, 519), Without(Sample(2000, 48, 12, 530), "t")>> }

CoordinateResponses ==
    {[status_code |-> 500, items |-> <<>>]}
        \cup {[status_code |-> 200, items |-> q] : q \in ApiStreams}

RecordedIds == {t.id : t \in {u \in TourCatalog : u.type = "tour_recorded"}}

Init ==
    /\ cli_args \in {c \in CliArgs : ~c.full_index}
    /\ tours \in SeqsUpTo(TourCatalog, MaxTours)
    /\ \E f \in [RecordedIds -> CoordinateResponses] :
          api = [totalPages |-> 0, pages |-> <<>>, failing |-> {},
                 coordinates |-> [id \in TourIds |->
                     IF id \in RecordedIds THEN f[id]
                     ELSE [status_code |-> 200, items |-> <<Sample(0, 48, 11, 519)>>]]]
    /\ pc = "for"
    /\ i = 1
    /\ coordinates = NoCoordinates
    /\ es = EmptyEs
    /\ ops = <<>>
    /\ exc = NoExc
    /\ es_before = EmptyEs
    /\ page_index = 0
    /\ page = NoPage
    /\ args = NoArgs
    /\ result = NoResult

row == tours[i]

\* line 81, the list exhausted: the function returns
Return ==
    /\ pc = "for"
    /\ i > Len(tours)
    /\ pc' = "returned"
    /\ UNCHANGED <<cli_args, api, tours, page_index, page, i, coordinates, es, ops,
                   exc, es_before, args, result>>

\* lines 83-84: a tour that was not recorded is passed over
SkipTour ==
    /\ pc = "for"
    /\ i <= Len(tours)
    /\ ~is_recorded(row)
    /\ i' = i + 1
    /\ UNCHANGED <<cli_args, api, pc, tours, page_index, page, coordinates, es, ops,
                   exc, es_before, args, result>>

\* lines 83-88: a recorded tour is taken up; the local coordinates keeps the rows
\* of the tour before it until line 92 binds it anew
BeginTour ==
    /\ pc = "for"
    /\ i <= Len(tours)
    /\ is_recorded(row)
    /\ pc' = TourSteps[1]
    /\ es_before' = es
    /\ UNCHANGED <<cli_args, api, tours, page_index, page, i, coordinates, es, ops,
                   exc, args, result>>

\* line 89, lines 97-111: both indices are created unless they exist
CreateElasticsearchIndex ==
    /\ pc = "_create_elasticsearch_index"
    /\ LET ti == tour_index(cli_args, row.date)
           ci == coordinates_index(cli_args, row.date)
       IN IF ti.exc # NoExc
          THEN /\ exc' = ti.exc
               /\ pc' = "raised"
               /\ UNCHANGED <<es, ops>>
          ELSE IF ci.exc # NoExc
          THEN /\ exc' = ci.exc
               /\ pc' = "raised"
               /\ es' = indices_create(es, ti.value)
               /\ ops' = Append(ops, Op("indices.create", i, ti.value))
          ELSE /\ es' = indices_create(indices_create(es, ti.value), ci.value)
               /\ ops' = ops \o <<Op("indices.create", i, ti.value),
                                  Op("indices.create", i, ci.value)>>
               /\ pc' = after(pc)
               /\ UNCHANGED exc
    /\ UNCHANGED <<cli_args, api, tours, page_index, page, i, coordinates, es_before,
                   args, result>>

\* line 91: the tour's metadata is written under the tour id
IndexTour ==
    /\ pc = "es.index"
    /\ LET ti == tour_index(cli_args, row.date)
       IN IF ti.exc # NoExc
          THEN /\ exc' = ti.exc
               /\ pc' = "raised"
               /\ UNCHANGED <<es, ops>>
          ELSE /\ es' = es_index(es, ti.value, row.id, row)
               /\ ops' = Append(ops, Op("index", i, <<ti.value, str(row.id)>>))
               /\ pc' = after(pc)
               /\ UNCHANGED exc
    /\ UNCHANGED <<cli_args, api, tours, page_index, page, i, coordinates, es_before,
                   args, result>>

\* line 92, lines 41-45: the coordinate stream is fetched; a status >= 400 raises
RequestCoordinates ==
    /\ pc = "_request_coordinates"
    /\ LET r == coordinates_response(row.id)
       IN /\ ops' = Append(ops, Op("GET coordinates", i, row.id))
          /\ IF request_failed(r)
             THEN /\ exc' = RuntimeError(r.status_code)
                  /\ pc' = "raised"
                  /\ UNCHANGED coordinates
             ELSE /\ coordinates' = [items |-> r.items, rows |-> <<>>]
                  /\ pc' = after(pc)
                  /\ UNCHANGED exc
    /\ UNCHANGED <<cli_args, api, tours, page_index, page, i, es, es_before, args, result>>

\* line 93: the stream is enriched; an exception leaves no rows behind
TransformCoordinates ==
    /\ pc = "_transform_coordinates"
    /\ LET r == _transform_coordinates(coordinates, row.date, row.id, row.sport, cli_args)
       IN IF r.exc # NoExc
          THEN /\ exc' = r.exc
               /\ pc' = "raised"
               /\ UNCHANGED coordinates
          ELSE /\ coordinates' = [items |-> <<>>, rows |-> r.rows]
               /\ pc' = after(pc)
               /\ UNCHANGED exc
    /\ UNCHANGED <<cli_args, api, tours, page_index, page, i, es, ops, es_before,
                   args, result>>

\* line 94: the rows are written in one bulk call
Bulk ==
    /\ pc = "bulk"
    /\ es' = bulk(es, coordinates.rows)
    /\ ops' = Append(ops, Op("bulk", i,
                             [k \in 1..Len(coordinates.rows) |->
                                 <<coordinates.rows[k]._index, coordinates.rows[k]._id>>]))
    /\ pc' = after(pc)
    /\ UNCHANGED <<cli_args, api, tours, page_index, page, i, coordinates, exc,
                   es_before, args, result>>

\* line 95, and the loop's next round
LogImported ==
    /\ pc = "log.info"
    /\ ops' = Append(ops, Op("log.info", i, row.id))
    /\ pc' = after(pc)
    /\ i' = IF after(pc) = "for" THEN i + 1 ELSE i
    /\ UNCHANGED <<cli_args, api, tours, page_index, page, coordinates, es, exc,
                   es_before, args, result>>

Next ==
    \/ Return
    \/ SkipTour
    \/ BeginTour
    \/ CreateElasticsearchIndex
    \/ IndexTour
    \/ RequestCoordinates
    \/ TransformCoordinates
    \/ Bulk
    \/ LogImported

Spec == Init /\ [][Next]_vars

----------------------------------------------------------------------------
(* Claims about _send_to_elasticsearch *)

Recorded(k) == tours[k].type = "tour_recorded"
FetchStatus(k) == api.coordinates[tours[k].id].status_code
Stream(k) == api.coordinates[tours[k].id].items
HasMalformed(items) == \E n \in 1..Len(items) : IsMalformed(items[n])
Ended == pc \in {"returned", "raised"}

\* the outbound calls made for the tour at position k, in order
OpsAt(k) == SelectSeq(ops, LAMBDA o : o.at = k)
OpNamesAt(k) == [n \in 1..Len(OpsAt(k)) |-> OpsAt(k)[n].op]

\* the document keys written for the tour at position k
Writes(k) ==
    UNION { LET o == OpsAt(k)[n]
            IN IF o.op = "index" THEN {o.arg}
               ELSE IF o.op = "bulk" THEN {o.arg[m] : m \in 1..Len(o.arg)}
               ELSE {} : n \in 1..Len(OpsAt(k)) }

IsCoordinateDoc(body) == "tour_id" \in DOMAIN body
DocTourId(body) == IF IsCoordinateDoc(body) THEN body.tour_id ELSE body.id
MetadataKey(k) == <<tour_index(cli_args, tours[k].date).value, str(tours[k].id)>>

\* C1 as stated: a failed coordinate fetch skips that tour only; every later
\* recorded tour whose fetch succeeds is still fetched and gets its metadata
\* document.
C1_FetchFailureSkipsOneTour ==
    (Ended /\ exc.type \in {"", "RuntimeError"}) =>
        \A j, k \in 1..Len(tours) :
            (j < k /\ Recorded(j) /\ FetchStatus(j) >= 400
                   /\ Recorded(k) /\ FetchStatus(k) < 400)
               => /\ MetadataKey(k) \in DOMAIN es.docs
                  /\ \E n \in 1..Len(ops) : ops[n].op = "GET coordinates" /\ ops[n].at = k

\* C2: a tour that is not of type 'tour_recorded' causes no datastore call and no
\* fetch, wherever it is in the list, and no document of the datastore is its.
C2_NonRecordedUntouched ==
    /\ \A n \in 1..Len(ops) : tours[ops[n].at].type = "tour_recorded"
    /\ \A key \in DOMAIN es.docs :
          \E k \in 1..Len(tours) :
              /\ tours[k].type = "tour_recorded"
              /\ tours[k].id = DocTourId(es.docs[key])
    /\ \A k \in 1..Len(tours) : tours[k].type # "tour_recorded" => OpsAt(k) = <<>>

\* a planned tour between two recorded tours that were both imported
C2_Witness ==
    /\ pc = "returned"
    /\ \E j, k, l \in 1..Len(tours) :
          /\ j < k /\ k < l
          /\ tours[k].type = "tour_planned"
          /\ Len(OpsAt(j)) = 6 /\ Len(OpsAt(l)) = 6
          /\ Writes(l) # Writes(j)

\* C3: importing a tour a second time, with the same metadata and the same
\* stream, writes the same (index, id) pairs as the first time and leaves the
\* datastore as it was before the second import.
C3_ReimportIdempotent ==
    (pc = "log.info" /\ \E j \in 1..(i - 1) : tours[j] = tours[i]) =>
        /\ es = es_before
        /\ \A j \in 1..(i - 1) : tours[j] = tours[i] => Writes(j) = Writes(i)

\* the second import of a tour with two points has written, after another tour
C3_Witness ==
    /\ pc = "log.info"
    /\ i = 3
    /\ tours[1] = tours[3]
    /\ tours[2] # tours[3] /\ Recorded(2)
    /\ Len(coordinates.rows) = 2
    /\ Cardinality(Writes(3)) = 3
    /\ Cardinality(DOMAIN es.docs) > 3

\* C8: a tour whose stream holds a malformed sample gets no coordinate document,
\* not even for the well-formed samples before the malformed one, and no bulk call.
C8_NoPartialWrite ==
    \A k \in 1..Len(tours) :
        (Recorded(k) /\ HasMalformed(Stream(k))) =>
            /\ \A key \in DOMAIN es.docs :
                  IsCoordinateDoc(es.docs[key]) => es.docs[key].tour_id # tours[k].id
            /\ \A n \in 1..Len(OpsAt(k)) : OpsAt(k)[n].op # "bulk"

\* enrichment raised on the second sample of the second tour, after the first
\* tour's points and this tour's metadata were written
C8_Witness ==
    /\ pc = "raised"
    /\ exc = KeyError("t")
    /\ i = 2
    /\ ~IsMalformed(Stream(2)[1])
    /\ MetadataKey(2) \in DOMAIN es.docs
    /\ \E key \in DOMAIN es.docs : IsCoordinateDoc(es.docs[key])

OpNames == <<"indices.create", "indices.create", "index", "GET coordinates", "bulk", "log.info">>

\* C9: per recorded tour the calls are: create both indices, write the metadata
\* under the tour id, fetch the stream, bulk-write, log; nothing is done for a
\* later tour before the bulk write of an earlier one, and a coordinate document
\* is only ever in an index that was created, beside its tour's metadata.
C9_OneTourAtATimeInOrder ==
    /\ \A k \in 1..Len(tours) :
          /\ Len(OpsAt(k)) <= Len(OpNames)
          /\ OpNamesAt(k) = SubSeq(OpNames, 1, Len(OpsAt(k)))
          /\ Len(OpsAt(k)) >= 3 => OpsAt(k)[3].arg = MetadataKey(k)
    /\ \A a, b \in 1..Len(ops) :
          a < b => /\ ops[a].at <= ops[b].at
                   /\ ops[a].at < ops[b].at => Len(OpsAt(ops[a].at)) >= 5
    /\ \A key \in DOMAIN es.docs :
          IsCoordinateDoc(es.docs[key]) =>
              /\ key[1] \in es.indices
              /\ \E k \in 1..Len(tours) :
                    /\ tours[k].id = es.docs[key].tour_id
                    /\ MetadataKey(k) \in DOMAIN es.docs
                    /\ MetadataKey(k)[1] \in es.indices

\* three recorded tours imported, the run over
C9_Witness ==
    /\ pc = "returned"
    /\ Len(ops) = 18
    /\ \E key \in DOMAIN es.docs : IsCoordinateDoc(es.docs[key])

\* C10 as stated: whatever the coordinate template is, a recorded tour with a
\* well-formed stream is imported, and each of its points goes to the coordinate
\* index that was created for the tour.
C10_EveryTemplateRoutes ==
    /\ (pc = "raised" /\ exc.type = "KeyError") => HasMalformed(Stream(i))
    /\ \A n \in 1..Len(ops) :
          ops[n].op = "bulk" =>
              \A m \in 1..Len(ops[n].arg) :
                  ops[n].arg[m][1] = coordinates_index(cli_args, tours[ops[n].at].date).value

====
